---- MODULE Spec2Model ----
(***************************************************************************)
(* A model of the bank ledger of ahmadsaad58/bank: the Transaction value   *)
(* object (models/transaction.py), the account state machine               *)
(* BankAccount.process_transaction with its per-type handlers              *)
(* (models/bank_account.py), and the request handlers that drive it        *)
(* (api/accounts.py, api/transactions.py, api/users.py) over the module    *)
(* level registries of api/data/data.py.                                   *)
(*                                                                         *)
(* Objects live in two stores, account (keyed by account_name) and         *)
(* transaction (keyed by allocation order); registries and histories hold  *)
(* references into them, as the Python lists hold object references.       *)
(*                                                                         *)
(* The two account references of a Transaction are spelled                 *)
(* source_account_id / destination_account_id where the dataclass declares *)
(* them (transaction.py:31,33) and source_account_name /                   *)
(* destination_account_name wherever they are passed or read               *)
(* (bank_account.py:69,128,162,201,235,239,278; transactions.py:78,167,    *)
(* 266-267,274-275,293-294,311-312).  The model has one slot per reference *)
(* and gives it the name under which the handlers read it.                 *)
(*                                                                         *)
(* Amounts and balances are Python floats; the model draws them from small *)
(* integers, on which float addition and subtraction are exact.            *)
(***************************************************************************)
EXTENDS Integers, Sequences, FiniteSets, TLC

VARIABLES
    USERS,                    \* data.py:12  the usernames that have a User
    ACCOUNT_NAME_TO_USERNAME, \* data.py:14  account_name -> username, None when absent
    ACCOUNTS,                 \* data.py:16  username -> list of accounts (by account_name)
    TRANSACTIONS,             \* data.py:18  list of transactions (by reference)
    account,                  \* the BankAccount objects, by account_name
    transaction,              \* the Transaction objects, in allocation order
    last,                     \* what the last call or request returned
    flight                    \* the transfer request that is served step by step

vars == <<USERS, ACCOUNT_NAME_TO_USERNAME, ACCOUNTS, TRANSACTIONS, account, transaction, last,
          flight>>

----------------------------------------------------------------------------
(* Bounds of the model.                                                    *)

\* amounts of transactions and of initial deposits range over 1..MaxAmount
MaxAmount == 1
\* Transaction objects a behaviour of Spec may allocate
MaxCalls == 2
\* Transaction objects a behaviour of SpecTransfer or SpecTeller may allocate;
\* no request is served once the store holds that many
MaxTransactions == 3
\* Transaction objects in the store beyond which a behaviour of SpecRequests
\* serves no request
MaxRequests == 2
\* Transaction objects a behaviour of SpecDeclared may allocate; no request is
\* served once the store holds that many
MaxDeclared == 1

----------------------------------------------------------------------------
(* Values.                                                                 *)

None == "None"

TransactionTypes == {"DEPOSIT", "WITHDRAWAL", "TRANSFER_IN", "TRANSFER_OUT", "FEE", "INTEREST"}
TransactionStatuses == {"PENDING", "COMPLETED", "FAILED", "REVERSED", "CANCELLED"}
AccountStatuses == {"ACTIVE", "CLOSED", "FROZEN", "PENDING"}
AccountTypes == {"SAVINGS", "CHECKING", "CREDIT", "LOAN"}

BLOCKED_ACCOUNT_STATUSES == {"FROZEN", "CLOSED"}

Currencies == {"USD", "EUR"}
Usernames == {"alice"}
\* account_name is "<account_type lower-cased>_<first five characters of a uuid4>"
AccountNames == {"checking_1", "savings_2"}
TypeOfName(name) == IF name = "checking_1" THEN "CHECKING" ELSE "SAVINGS"

Amounts == 1..MaxAmount

NoAccount == [absent |-> TRUE]
ValueError == [exception |-> "ValueError"]

----------------------------------------------------------------------------
(* models/transaction.py                                                   *)

\* a Transaction whose __post_init__ checks nothing
Transaction_unchecked(type, amount, currency, source_account_name, destination_account_name) ==
    [type |-> type,
     amount |-> amount,
     currency |-> currency,
     source_account_name |-> source_account_name,
     destination_account_name |-> destination_account_name,
     status |-> "PENDING"]

\* a Transaction whose __post_init__ does not look at the amount
Transaction_any_amount(type, amount, currency, source_account_name, destination_account_name) ==
    IF type \in {"TRANSFER_OUT", "WITHDRAWAL"} /\ source_account_name = None
    THEN ValueError
    ELSE IF type \in {"TRANSFER_IN", "DEPOSIT"} /\ destination_account_name = None
    THEN ValueError
    ELSE Transaction_unchecked(type, amount, currency, source_account_name,
                               destination_account_name)

\* Transaction(...): the dataclass fields and the checks of __post_init__
Transaction(type, amount, currency, source_account_name, destination_account_name) ==
    IF amount <= 0 THEN ValueError
    ELSE IF type \in {"TRANSFER_OUT", "WITHDRAWAL"} /\ source_account_name = None
    THEN ValueError
    ELSE IF type \in {"TRANSFER_IN", "DEPOSIT"} /\ destination_account_name = None
    THEN ValueError
    ELSE IF type \in {"TRANSFER_IN", "TRANSFER_OUT"}
            /\ (source_account_name = None /\ destination_account_name = None)
    THEN ValueError
    ELSE [type |-> type,
          amount |-> amount,
          currency |-> currency,
          source_account_name |-> source_account_name,
          destination_account_name |-> destination_account_name,
          status |-> "PENDING"]

----------------------------------------------------------------------------
(* models/bank_account.py: the handlers.  Each takes the account object    *)
(* and the transaction object and yields both as the call leaves them,     *)
(* with the value it returns.                                              *)

\* a returned (accepted, message, transaction.status) tuple
Tuple(accepted, message, status) ==
    [kind |-> "tuple", accepted |-> accepted, message |-> message, status |-> status]
\* a returned bare bool
Bool(accepted) == [kind |-> "bool", accepted |-> accepted]
\* falling off the end of a function
ReturnsNone == [kind |-> "None"]

Outcome(self, txn, ret) == [self |-> self, transaction |-> txn, ret |-> ret]

\* transaction.status = FAILED; return False, message, transaction.status
Rejected(self, txn, message) ==
    Outcome(self, [txn EXCEPT !.status = "FAILED"], Tuple(FALSE, message, "FAILED"))

\* transaction.status = COMPLETED; return True, message, transaction.status
Completed(self, txn, message) ==
    Outcome(self, [txn EXCEPT !.status = "COMPLETED"], Tuple(TRUE, message, "COMPLETED"))

\* a blocked-account handler that reopens the account it rejects on
Blocked_reopens(self, txn) ==
    IF self.status \in BLOCKED_ACCOUNT_STATUSES
    THEN Rejected([self EXCEPT !.status = "ACTIVE"], txn, "Account is frozen")
    ELSE Outcome(self, txn, ReturnsNone)

_process_blocked_account_transaction(self, txn) ==
    IF self.status = "FROZEN" THEN Rejected(self, txn, "Account is frozen")
    ELSE IF self.status = "CLOSED" THEN Rejected(self, txn, "Account is closed")
    ELSE Outcome(self, txn, ReturnsNone)

\* a currency handler that lets every transaction through
Currency_unchecked(self, txn) == Outcome(self, txn, ReturnsNone)

_process_currency(self, txn) ==
    IF self.status \in BLOCKED_ACCOUNT_STATUSES
    THEN _process_blocked_account_transaction(self, txn)
    ELSE IF txn.currency # self.currency THEN Rejected(self, txn, "Currency mismatch")
    ELSE Outcome(self, txn, ReturnsNone)

\* a credit that leaves the balance as it was
Credit_nothing(self, amount) == self

\* self.balance += amount; if self.balance < 0 and FROZEN: self.status = ACTIVE
Credit(self, amount) ==
    LET credited == [self EXCEPT !.balance = @ + amount]
    IN IF credited.balance < 0 /\ credited.status = "FROZEN"
       THEN [credited EXCEPT !.status = "ACTIVE"]
       ELSE credited

\* a debit that leaves the balance as it was
Debit_nothing(self, amount) == self

Debit(self, amount) == [self EXCEPT !.balance = @ - amount]

\* a deposit handler without its checks
Deposit_unguarded(self, txn) ==
    Completed(Credit(self, txn.amount), txn, "Deposit successful")

_process_deposit(self, txn) ==
    IF self.status \in BLOCKED_ACCOUNT_STATUSES
    THEN _process_blocked_account_transaction(self, txn)
    ELSE IF txn.destination_account_name # self.account_name
    THEN Rejected(self, txn, "Destination account ID mismatch")
    ELSE IF txn.amount <= 0
    THEN Rejected(self, txn, "Deposit amount must be positive and greater than 0")
    ELSE Completed(Credit(self, txn.amount), txn, "Deposit successful")

\* a withdrawal handler that debits whatever the balance is
Withdrawl_overdraws(self, txn) ==
    IF self.status \in BLOCKED_ACCOUNT_STATUSES
    THEN _process_blocked_account_transaction(self, txn)
    ELSE IF txn.source_account_name # self.account_name
    THEN Rejected(self, txn, "Source account ID mismatch")
    ELSE Completed(Debit(self, txn.amount), txn, "Withdrawal successful")

_process_withdrawl(self, txn) ==
    IF self.status \in BLOCKED_ACCOUNT_STATUSES
    THEN _process_blocked_account_transaction(self, txn)
    ELSE IF txn.source_account_name # self.account_name
    THEN Rejected(self, txn, "Source account ID mismatch")
    ELSE IF txn.amount <= 0
    THEN Rejected(self, txn, "Withdrawal amount must be positive and greater than 0")
    ELSE IF self.balance >= txn.amount
    THEN Completed(Debit(self, txn.amount), txn, "Withdrawal successful")
    ELSE Rejected(self, txn, "Insufficient funds")

_process_transfer_in(self, txn) ==
    IF self.status \in BLOCKED_ACCOUNT_STATUSES
    THEN _process_blocked_account_transaction(self, txn)
    ELSE IF txn.destination_account_name # self.account_name
    THEN Rejected(self, txn, "Destination account ID mismatch")
    ELSE IF txn.amount <= 0
    THEN Rejected(self, txn, "Transfer_IN amount must be positive and greater than 0")
    ELSE Completed(Credit(self, txn.amount), txn, "Transfer_IN successful")

\* a transfer-out handler that debits whatever the balance is
Transfer_out_overdraws(self, txn) ==
    IF self.status \in BLOCKED_ACCOUNT_STATUSES
    THEN _process_blocked_account_transaction(self, txn)
    ELSE IF txn.source_account_name # self.account_name
    THEN Rejected(self, txn, "Source account ID mismatch")
    ELSE IF txn.destination_account_name = None
    THEN Rejected(self, txn, "Destination account ID is None")
    ELSE Completed(Debit(self, txn.amount), txn, "Transfer_OUT successful")

_process_transfer_out(self, txn) ==
    IF self.status \in BLOCKED_ACCOUNT_STATUSES
    THEN _process_blocked_account_transaction(self, txn)
    ELSE IF txn.source_account_name # self.account_name
    THEN Rejected(self, txn, "Source account ID mismatch")
    ELSE IF txn.destination_account_name = None
    THEN Rejected(self, txn, "Destination account ID is None")
    ELSE IF txn.amount <= 0
    THEN Rejected(self, txn, "Transfer_OUT amount must be positive and greater than 0")
    ELSE IF self.balance >= txn.amount
    THEN Completed(Debit(self, txn.amount), txn, "Transfer_OUT successful")
    ELSE Rejected(self, txn, "Insufficient funds")

\* a fee handler that rejects an unpayable fee without freezing the account
Fee_never_freezes(self, txn) ==
    IF self.status \in BLOCKED_ACCOUNT_STATUSES
    THEN _process_blocked_account_transaction(self, txn)
    ELSE Outcome(self, [txn EXCEPT !.status = "FAILED"], Bool(FALSE))

\* a fee handler that looks at the funds before it looks at the source
Fee_freezes_first(self, txn) ==
    IF self.status \in BLOCKED_ACCOUNT_STATUSES
    THEN _process_blocked_account_transaction(self, txn)
    ELSE IF self.balance < txn.amount
    THEN Outcome([self EXCEPT !.status = "FROZEN"],
                 [txn EXCEPT !.status = "FAILED"], Bool(FALSE))
    ELSE IF txn.source_account_name # self.account_name
    THEN Outcome(self, [txn EXCEPT !.status = "FAILED"], Bool(FALSE))
    ELSE Outcome(Debit(self, txn.amount), [txn EXCEPT !.status = "COMPLETED"], Bool(TRUE))

\* the fee handler returns a bare bool on the paths past the blocked check
_process_fee(self, txn) ==
    IF self.status \in BLOCKED_ACCOUNT_STATUSES
    THEN _process_blocked_account_transaction(self, txn)
    ELSE IF txn.source_account_name # self.account_name
    THEN Outcome(self, [txn EXCEPT !.status = "FAILED"], Bool(FALSE))
    ELSE IF self.balance >= txn.amount
    THEN Outcome(Debit(self, txn.amount), [txn EXCEPT !.status = "COMPLETED"], Bool(TRUE))
    ELSE Outcome([self EXCEPT !.status = "FROZEN"],
                 [txn EXCEPT !.status = "FAILED"], Bool(FALSE))

\* the dispatch of process_transaction, after the append to the history
Dispatch(self, txn) ==
    IF txn.currency # self.currency THEN _process_currency(self, txn)
    ELSE IF txn.type = "DEPOSIT" THEN _process_deposit(self, txn)
    ELSE IF txn.type = "WITHDRAWAL" THEN _process_withdrawl(self, txn)
    ELSE IF txn.type = "TRANSFER_IN" THEN _process_transfer_in(self, txn)
    ELSE IF txn.type = "TRANSFER_OUT" THEN _process_transfer_out(self, txn)
    ELSE IF txn.type = "FEE" THEN _process_fee(self, txn)
    ELSE IF txn.type = "INTEREST" THEN _process_deposit(self, txn)
    ELSE Rejected(self, txn, "Unhandled transaction type")

\* a history that takes the new transaction at its front
Prepend_history(self, tid) ==
    [self EXCEPT !.transaction_history = <<tid>> \o @]

\* a history that records nothing
Append_nothing(self, tid) == self

\* self.transaction_history.append(transaction), with transaction the object tid
Append_history(self, tid) ==
    [self EXCEPT !.transaction_history = Append(@, tid)]

\* process_transaction(self, transaction) where transaction is the object tid
process_transaction(self, tid, txn) == Dispatch(Append_history(self, tid), txn)

\* BankAccount(...): the dataclass fields and __post_init__, which processes a
\* positive initial deposit as a DEPOSIT transaction (the object tid).  Yields
\* the object and the transactions it created, or the exception raised.
BankAccount(account_name, currency, account_owner, initial_deposit, status, tid) ==
    LET self == [account_name |-> account_name,
                 account_type |-> TypeOfName(account_name),
                 currency |-> currency,
                 account_owner |-> account_owner,
                 status |-> status,
                 balance |-> 0,
                 transaction_history |-> <<>>]
    IN IF account_owner = "" THEN ValueError
       ELSE IF initial_deposit < 0 THEN ValueError
       ELSE IF initial_deposit > 0
       THEN LET initial_deposit_txn ==
                    Transaction("DEPOSIT", initial_deposit, currency, None, account_name)
                done == process_transaction(self, tid, initial_deposit_txn)
            IN [self |-> done.self, created |-> <<done.transaction>>]
       ELSE [self |-> self, created |-> <<>>]

----------------------------------------------------------------------------
(* The state.                                                              *)

\* record b laid over record a
With(a, b) == [f \in DOMAIN a \cup DOMAIN b |-> IF f \in DOMAIN b THEN b[f] ELSE a[f]]

\* what a call reports: op, the object(s) it worked on, what it returned
NoCall ==
    [op |-> "none", account |-> None, txn |-> 0, ret |-> ReturnsNone, raised |-> None,
     code |-> 0, key |-> None, message |-> None, amount |-> 0, currency |-> None,
     source |-> None, destination |-> None, out_txn |-> 0, in_txn |-> 0, comp_txn |-> 0]

\* the balances of the account objects accts, 0 for a name without an object
Balances(accts) ==
    [n \in AccountNames |-> IF accts[n] = NoAccount THEN 0 ELSE accts[n].balance]

\* the threads that serve debits of one account at the same time
Threads == {1, 2}

\* the locals of a process_transaction call that debits, between the test
\* `self.balance >= transaction.amount` and the subtraction
NoDebit == [pc |-> "idle", account |-> None, txn |-> 0]

\* the locals of a transfer request between its steps; pc "idle" before it
\* is received.  before: the balances when the request is received; saved:
\* the balances in the snapshot save_data writes after the two legs;
\* debits: the process_transaction calls the threads are in
NoFlight ==
    [pc |-> "idle", source |-> None, destination |-> None, amount |-> 0, currency |-> None,
     out_txn |-> 0, in_txn |-> 0, comp_txn |-> 0,
     processed_out |-> FALSE, message_out |-> None,
     processed_in |-> FALSE, message_in |-> None,
     before |-> [n \in AccountNames |-> 0], saved |-> [n \in AccountNames |-> 0],
     debits |-> [t \in Threads |-> NoDebit]]

Init ==
    /\ USERS = {}
    /\ ACCOUNT_NAME_TO_USERNAME = [n \in AccountNames |-> None]
    /\ ACCOUNTS = [u \in Usernames |-> <<>>]
    /\ TRANSACTIONS = <<>>
    /\ account = [n \in AccountNames |-> NoAccount]
    /\ transaction = <<>>
    /\ last = NoCall
    /\ flight = NoFlight

Exists(n) == account[n] # NoAccount

\* the next free slot of the transaction store
NextId == Len(transaction) + 1

Registries == <<USERS, ACCOUNT_NAME_TO_USERNAME, ACCOUNTS, TRANSACTIONS>>

----------------------------------------------------------------------------
(* Spec: one BankAccount object driven directly through its constructor    *)
(* and process_transaction, with transactions of every type.               *)

\* the name and the currency of the object under test; the other name is a
\* foreign reference, the other currency a foreign currency
UnitNames == {"checking_1"}
UnitCurrencies == {"USD"}

\* the (source, destination) references a direct call is made with
References(type, n) ==
    LET other == CHOOSE m \in AccountNames : m # n
    IN CASE type \in {"DEPOSIT", "INTEREST"} -> {<<None, n>>, <<None, other>>}
         [] type \in {"WITHDRAWAL", "FEE"} -> {<<n, None>>, <<other, None>>}
         [] type = "TRANSFER_IN" -> {<<other, n>>, <<n, other>>}
         [] type = "TRANSFER_OUT" -> {<<n, other>>, <<other, n>>, <<n, None>>}

\* account = BankAccount(account_type, currency, account_owner, initial_deposit, status=status)
Construct(n, currency, initial_deposit, status) ==
    /\ ~Exists(n)
    /\ LET made == BankAccount(n, currency, "alice", initial_deposit, status, NextId)
       IN IF made = ValueError
          THEN /\ last' = With(NoCall, [op |-> "BankAccount", raised |-> "ValueError"])
               /\ UNCHANGED <<account, transaction>>
          ELSE /\ Len(transaction) + Len(made.created) <= MaxCalls
               /\ account' = [account EXCEPT ![n] = made.self]
               /\ transaction' = transaction \o made.created
               /\ last' = With(NoCall, [op |-> "BankAccount", account |-> n])
    /\ UNCHANGED <<Registries, flight>>

\* account.process_transaction(Transaction(type, amount, currency, source, destination))
Call(n, type, amount, currency, source, destination) ==
    /\ Exists(n)
    /\ Len(transaction) < MaxCalls
    /\ LET txn == Transaction(type, amount, currency, source, destination)
       IN /\ txn # ValueError
          /\ LET done == process_transaction(account[n], NextId, txn)
             IN /\ account' = [account EXCEPT ![n] = done.self]
                /\ transaction' = Append(transaction, done.transaction)
                /\ last' = With(NoCall, [op |-> "process_transaction", account |-> n,
                                         txn |-> NextId, ret |-> done.ret])
    /\ UNCHANGED <<Registries, flight>>

Next ==
    \/ \E n \in UnitNames, currency \in UnitCurrencies,
          initial_deposit \in -1..MaxAmount, status \in AccountStatuses :
            Construct(n, currency, initial_deposit, status)
    \/ \E n \in UnitNames, type \in TransactionTypes, amount \in Amounts,
          currency \in Currencies :
            \E r \in References(type, n) : Call(n, type, amount, currency, r[1], r[2])

Spec == Init /\ [][Next]_vars

----------------------------------------------------------------------------
(* Properties of BankAccount.process_transaction, checked under Spec.      *)

CreditTypes == {"DEPOSIT", "INTEREST", "TRANSFER_IN"}
DebitTypes == {"WITHDRAWAL", "TRANSFER_OUT", "FEE"}

\* what a transaction of a history contributes to the balance
SignedAmount(txn) ==
    IF txn.status # "COMPLETED" THEN 0
    ELSE IF txn.type \in CreditTypes THEN txn.amount
    ELSE IF txn.type \in DebitTypes THEN 0 - txn.amount
    ELSE 0

RECURSIVE LedgerSum(_)
LedgerSum(history) ==
    IF history = <<>> THEN 0
    ELSE SignedAmount(transaction[Head(history)]) + LedgerSum(Tail(history))

Occurrences(history, tid) == Cardinality({i \in DOMAIN history : history[i] = tid})

\* the last step was a process_transaction call on account n
Processed(n) == last.op = "process_transaction" /\ last.account = n

C3_BlockedRejects ==
    [][\A n \in AccountNames :
          (/\ Exists(n)
           /\ account[n].status \in BLOCKED_ACCOUNT_STATUSES
           /\ last'.op = "process_transaction"
           /\ last'.account = n
           /\ Len(transaction') = Len(transaction) + 1)
          => /\ last'.ret.kind = "tuple"
             /\ last'.ret.accepted = FALSE
             /\ last'.ret.status = "FAILED"
             /\ transaction'[last'.txn].status = "FAILED"
             /\ account'[n].balance = account[n].balance
             /\ account'[n].status = account[n].status]_vars

\* a same-currency deposit naming the account, rejected because it is FROZEN
C3_Witness ==
    \E n \in AccountNames :
        /\ Exists(n)
        /\ Processed(n)
        /\ account[n].status = "FROZEN"
        /\ transaction[last.txn].type = "DEPOSIT"
        /\ transaction[last.txn].currency = account[n].currency
        /\ transaction[last.txn].destination_account_name = n
        /\ last.ret = Tuple(FALSE, "Account is frozen", "FAILED")

\* the last call processed a transaction in a currency other than the account's
\* (no handler changes either currency)
CurrencyMismatch(n) ==
    Processed(n) /\ transaction[last.txn].currency # account[n].currency

Calls(n) ==
    /\ last'.op = "process_transaction"
    /\ last'.account = n
    /\ Len(transaction') = Len(transaction) + 1

\* this step processes, on the ACTIVE account n, a transaction of one of the
\* types in its own currency, naming it as source, for more than its balance
Overdraws(n, types) ==
    /\ Exists(n)
    /\ account[n].status = "ACTIVE"
    /\ Calls(n)
    /\ transaction'[last'.txn].type \in types
    /\ transaction'[last'.txn].currency = account[n].currency
    /\ transaction'[last'.txn].source_account_name = n
    /\ transaction'[last'.txn].amount > account[n].balance

\* the call left balance and status alone and answered Insufficient funds
RefusedForFunds(n) ==
    /\ account'[n].balance = account[n].balance
    /\ account'[n].status = account[n].status
    /\ last'.ret = Tuple(FALSE, "Insufficient funds", "FAILED")

C12_OverdrawRefusedWithDestination ==
    [][\A n \in AccountNames :
          (/\ Overdraws(n, {"WITHDRAWAL", "TRANSFER_OUT"})
           /\ (transaction'[last'.txn].type = "TRANSFER_OUT"
                  => transaction'[last'.txn].destination_account_name # None))
          => RefusedForFunds(n)]_vars

\* this step processes a FEE for more than the balance of the ACTIVE account n
UnpayableFee(n) ==
    /\ Exists(n)
    /\ account[n].status = "ACTIVE"
    /\ Calls(n)
    /\ transaction'[last'.txn].type = "FEE"
    /\ transaction'[last'.txn].amount > account[n].balance

\* the call failed the transaction, kept the balance and froze the account
FrozenByFee(n) ==
    /\ transaction'[last'.txn].status = "FAILED"
    /\ account'[n].balance = account[n].balance
    /\ account'[n].status = "FROZEN"

\* a call on a FROZEN account is rejected as frozen and leaves it FROZEN
FrozenStays(n) ==
    (Exists(n) /\ account[n].status = "FROZEN" /\ Calls(n))
    => /\ last'.ret = Tuple(FALSE, "Account is frozen", "FAILED")
       /\ account'[n].status = "FROZEN"

C16_DepositUnfreezes ==
    [][\A n \in AccountNames :
          (/\ Exists(n)
           /\ account[n].status = "FROZEN"
           /\ Calls(n)
           /\ transaction'[last'.txn].type \in {"DEPOSIT", "INTEREST"}
           /\ transaction'[last'.txn].currency = account[n].currency
           /\ transaction'[last'.txn].destination_account_name = n
           /\ account[n].balance + transaction'[last'.txn].amount >= 0)
          => /\ transaction'[last'.txn].status = "COMPLETED"
             /\ account'[n].balance = account[n].balance + transaction'[last'.txn].amount
             /\ account'[n].status = "ACTIVE"]_vars

----------------------------------------------------------------------------
(* SpecConstruct: Transaction(...) called with every combination of type,  *)
(* amount, currency and account references.                                *)

\* what a caller can pass as an account reference
AccountReferences == AccountNames \cup {None}

\* made = Transaction(type=..., amount=..., currency=..., source..., destination...)
Build(type, amount, currency, source, destination) ==
    /\ last' = With(NoCall,
           [op |-> "Transaction",
            args |-> [type |-> type, amount |-> amount, currency |-> currency,
                      source |-> source, destination |-> destination],
            made |-> Transaction(type, amount, currency, source, destination)])
    /\ UNCHANGED <<USERS, ACCOUNT_NAME_TO_USERNAME, ACCOUNTS, TRANSACTIONS, account,
                   transaction, flight>>

NextConstruct ==
    \E type \in TransactionTypes, amount \in -1..MaxAmount, currency \in Currencies,
       source \in AccountReferences, destination \in AccountReferences :
        Build(type, amount, currency, source, destination)

SpecConstruct == Init /\ [][NextConstruct]_vars

\* the last step called Transaction(...); Built: and it raised nothing
Constructing == last.op = "Transaction"
Built == Constructing /\ last.made # ValueError

\* C17 as stated: a TRANSFER_IN or TRANSFER_OUT is constructed only with both
\* a source and a destination reference; a TRANSFER_OUT with a source but no
\* destination and a TRANSFER_IN with a destination but no source fail.
C17_TransfersNeedBothReferences ==
    (Built /\ last.args.type \in {"TRANSFER_IN", "TRANSFER_OUT"})
    => /\ last.args.source # None
       /\ last.args.destination # None

----------------------------------------------------------------------------
(* The request handlers over the registries.  A handler runs to its        *)
(* response in one step.                                                   *)

Response(code, key, message) == [code |-> code, key |-> key, message |-> message]

\* the index of account_name in a user's list of accounts, -1 when absent
\* (the enumerate loops of the handlers)
account_to_update(accounts, account_name) ==
    IF \E idx \in 1..Len(accounts) : accounts[idx] = account_name
    THEN CHOOSE idx \in 1..Len(accounts) :
            /\ accounts[idx] = account_name
            /\ \A j \in 1..(idx - 1) : accounts[j] # account_name
    ELSE -1

\* the names create_account can give a new account
FreshNames == {n \in AccountNames : ~Exists(n)}

\* a create_user that starts the user over when the username is taken
create_user_restarting(username) ==
    /\ Len(transaction) < MaxTransactions
    /\ IF username \in USERS
       THEN /\ last' = With(NoCall, [op |-> "create_user", code |-> 400,
                                     key |-> "error", message |-> "Username already exists"])
            /\ ACCOUNTS' = [ACCOUNTS EXCEPT ![username] = <<>>]
            /\ UNCHANGED USERS
       ELSE /\ USERS' = USERS \cup {username}
            /\ last' = With(NoCall, [op |-> "create_user", code |-> 201, key |-> "message"])
            /\ UNCHANGED ACCOUNTS
    /\ UNCHANGED <<ACCOUNT_NAME_TO_USERNAME, TRANSACTIONS, account, transaction, flight>>

\* POST /api/v1/users
create_user(username) ==
    /\ Len(transaction) < MaxTransactions
    /\ IF username \in USERS
       THEN /\ last' = With(NoCall, [op |-> "create_user", code |-> 400,
                                     key |-> "error", message |-> "Username already exists"])
            /\ UNCHANGED USERS
       ELSE /\ USERS' = USERS \cup {username}
            /\ last' = With(NoCall, [op |-> "create_user", code |-> 201, key |-> "message"])
    /\ UNCHANGED <<ACCOUNT_NAME_TO_USERNAME, ACCOUNTS, TRANSACTIONS, account, transaction,
                   flight>>

\* POST /api/v1/accounts, the new account getting the name n
create_account(username, n, initial_deposit, currency) ==
    /\ Len(transaction) < MaxTransactions
    /\ n \in FreshNames
    /\ IF username \notin USERS
       THEN /\ last' = With(NoCall, [op |-> "create_account", code |-> 400,
                                     key |-> "error", message |-> "Username does not exist"])
            /\ UNCHANGED <<ACCOUNT_NAME_TO_USERNAME, ACCOUNTS, account, transaction>>
       ELSE LET new_account == BankAccount(n, currency, username, initial_deposit,
                                           "ACTIVE", NextId)
            IN IF new_account = ValueError
               THEN /\ last' = With(NoCall, [op |-> "create_account", code |-> 400,
                                             key |-> "error", raised |-> "ValueError"])
                    /\ UNCHANGED <<ACCOUNT_NAME_TO_USERNAME, ACCOUNTS, account, transaction>>
               ELSE /\ Len(transaction) + Len(new_account.created) <= MaxTransactions
                    /\ account' = [account EXCEPT ![n] = new_account.self]
                    /\ transaction' = transaction \o new_account.created
                    /\ ACCOUNTS' = [ACCOUNTS EXCEPT ![username] = Append(@, n)]
                    /\ ACCOUNT_NAME_TO_USERNAME' =
                           [ACCOUNT_NAME_TO_USERNAME EXCEPT ![n] = username]
                    /\ last' = With(NoCall, [op |-> "create_account", code |-> 201,
                                             key |-> "message", account |-> n])
    /\ UNCHANGED <<USERS, TRANSACTIONS, flight>>

\* the statements of update_account's try block, in order: each field given in
\* data is converted and assigned; a failed conversion raises past the rest.
\* A field of data is <<>> when absent and <<value>> when given.
update_fields(self, data) ==
    LET typed == IF data.account_type = <<>> THEN self
                 ELSE [self EXCEPT !.account_type = data.account_type[1]]
        with_currency == IF data.currency = <<>> THEN typed
                         ELSE [typed EXCEPT !.currency = data.currency[1]]
        with_balance == IF data.balance = <<>> THEN with_currency
                        ELSE [with_currency EXCEPT !.balance = data.balance[1][1]]
    IN IF data.account_type # <<>> /\ data.account_type[1] \notin AccountTypes
       THEN [self |-> self, raised |-> "KeyError"]
       ELSE IF data.balance # <<>> /\ data.balance[1] = <<>>
       THEN [self |-> with_currency, raised |-> "ValueError"]
       ELSE [self |-> with_balance, raised |-> None]

\* PUT /api/v1/accounts/<user_name>/<account_name>
update_account(user_name, account_name, data) ==
    /\ Len(transaction) < MaxTransactions
    /\ IF account_to_update(ACCOUNTS[user_name], account_name) = -1
       THEN /\ last' = With(NoCall, [op |-> "update_account", code |-> 404,
                                     key |-> "error", message |-> "Account not found"])
            /\ UNCHANGED account
       ELSE IF data.account_type = <<>> /\ data.currency = <<>> /\ data.balance = <<>>
       THEN /\ last' = With(NoCall, [op |-> "update_account", code |-> 400, key |-> "error",
                                     message |-> "No data provided for update"])
            /\ UNCHANGED account
       ELSE LET updated == update_fields(account[account_name], data)
            IN /\ account' = [account EXCEPT ![account_name] = updated.self]
               /\ last' = With(NoCall,
                      [op |-> "update_account", account |-> account_name,
                       code |-> IF updated.raised = None THEN 200 ELSE 400,
                       key |-> IF updated.raised = None THEN "message" ELSE "error",
                       raised |-> updated.raised])
    /\ UNCHANGED <<USERS, ACCOUNT_NAME_TO_USERNAME, ACCOUNTS, TRANSACTIONS, transaction,
                   flight>>

\* the body shared by deposit and withdraw: find the account, build the
\* transaction, register it, process it, answer 201 or 400
post_transaction(op, type, user_name, account_name, amount, currency) ==
    /\ Len(transaction) < MaxTransactions
    /\ IF account_to_update(ACCOUNTS[user_name], account_name) = -1
       THEN /\ last' = With(NoCall, [op |-> op, amount |-> amount, code |-> 404, key |-> "error",
                                     message |-> "Account not found"])
            /\ UNCHANGED <<TRANSACTIONS, account, transaction>>
       ELSE LET new_transaction ==
                    IF type = "DEPOSIT"
                    THEN Transaction(type, amount, currency, None, account_name)
                    ELSE Transaction(type, amount, currency, account_name, None)
            IN IF new_transaction = ValueError
               THEN /\ last' = With(NoCall, [op |-> op, amount |-> amount, code |-> 400, key |-> "error",
                                             raised |-> "ValueError"])
                    /\ UNCHANGED <<TRANSACTIONS, account, transaction>>
               ELSE LET done == process_transaction(account[account_name], NextId,
                                                    new_transaction)
                    IN /\ Len(transaction) < MaxTransactions
                       /\ TRANSACTIONS' = Append(TRANSACTIONS, NextId)
                       /\ account' = [account EXCEPT ![account_name] = done.self]
                       /\ transaction' = Append(transaction, done.transaction)
                       /\ last' = With(NoCall,
                              [op |-> op, amount |-> amount, account |-> account_name, txn |-> NextId,
                               ret |-> done.ret,
                               code |-> IF done.ret.accepted THEN 201 ELSE 400,
                               key |-> IF done.ret.accepted THEN "message" ELSE "error",
                               message |-> done.ret.message])
    /\ UNCHANGED <<USERS, ACCOUNT_NAME_TO_USERNAME, ACCOUNTS, flight>>

\* POST /api/v1/accounts/deposit/<user_name>/<account_name>
deposit(user_name, account_name, amount, currency) ==
    post_transaction("deposit", "DEPOSIT", user_name, account_name, amount, currency)

\* POST /api/v1/accounts/withdraw/<user_name>/<account_name>
withdraw(user_name, account_name, amount, currency) ==
    post_transaction("withdraw", "WITHDRAWAL", user_name, account_name, amount, currency)

\* the response of transfer, from what the two legs returned
transfer_response(processed_out, message_out, processed_in, message_in) ==
    IF ~processed_in THEN Response(400, "transfer in error", message_in)
    ELSE IF ~processed_out THEN Response(400, "transfer out error", message_out)
    ELSE Response(201, "message", "Transfer Transactions created successfully.")

\* the compensating transaction transfer builds after the two legs: <<it>>,
\* or <<>> when it builds none
compensation(processed_out, processed_in, amount, currency, source, destination) ==
    IF ~processed_in
    THEN <<Transaction("TRANSFER_IN", amount, currency, source, source)>>
    ELSE IF ~processed_out
    THEN <<Transaction("TRANSFER_OUT", amount, currency, destination, destination)>>
    ELSE <<>>

\* the compensating transaction processed on the source whichever leg failed
compensate_source(processed_in, source, destination) == source

\* the compensating transaction processed on the destination whichever leg failed
compensate_destination(processed_in, source, destination) == destination

\* the account the compensating transaction is processed on
compensated_account(processed_in, source, destination) ==
    IF ~processed_in THEN source ELSE destination

\* the try block of transfer on the account objects accts: both legs, then the
\* compensation; yields the objects as it leaves them, the transactions it
\* created (out, in and the compensation if any) and the response
transfer_legs(accts, first_id, source, destination, amount, currency) ==
    LET out_transaction == Transaction("TRANSFER_OUT", amount, currency, source, destination)
        in_transaction == Transaction("TRANSFER_IN", amount, currency, source, destination)
        leg_out == process_transaction(accts[source], first_id, out_transaction)
        after_out == [accts EXCEPT ![source] = leg_out.self]
        leg_in == process_transaction(after_out[destination], first_id + 1, in_transaction)
        after_in == [after_out EXCEPT ![destination] = leg_in.self]
        processed_out == leg_out.ret.accepted
        processed_in == leg_in.ret.accepted
        comp == compensation(processed_out, processed_in, amount, currency,
                             source, destination)
        target == compensated_account(processed_in, source, destination)
        response == transfer_response(processed_out, leg_out.ret.message,
                                      processed_in, leg_in.ret.message)
    IN IF comp = <<>>
       THEN [account |-> after_in,
             created |-> <<leg_out.transaction, leg_in.transaction>>,
             response |-> response]
       ELSE LET leg_comp == process_transaction(after_in[target], first_id + 2, comp[1])
            IN [account |-> [after_in EXCEPT ![target] = leg_comp.self],
                created |-> <<leg_out.transaction, leg_in.transaction, leg_comp.transaction>>,
                response |-> response]

\* POST /api/v1/accounts/transfer
transfer(source, destination, amount, currency) ==
    /\ Len(transaction) < MaxTransactions
    /\ IF \/ ACCOUNT_NAME_TO_USERNAME[source] = None
          \/ ACCOUNT_NAME_TO_USERNAME[destination] = None
       THEN /\ last' = With(NoCall, [op |-> "transfer", amount |-> amount, code |-> 500, raised |-> "KeyError",
                                     source |-> source, destination |-> destination])
            /\ UNCHANGED <<TRANSACTIONS, account, transaction>>
       ELSE IF \/ account_to_update(ACCOUNTS[ACCOUNT_NAME_TO_USERNAME[source]], source) = -1
               \/ account_to_update(ACCOUNTS[ACCOUNT_NAME_TO_USERNAME[destination]],
                                    destination) = -1
       THEN /\ last' = With(NoCall, [op |-> "transfer", amount |-> amount, code |-> 404, key |-> "error",
                                     source |-> source, destination |-> destination])
            /\ UNCHANGED <<TRANSACTIONS, account, transaction>>
       ELSE IF Transaction("TRANSFER_OUT", amount, currency, source, destination) = ValueError
       THEN /\ last' = With(NoCall, [op |-> "transfer", amount |-> amount, code |-> 400, key |-> "error",
                                     raised |-> "ValueError",
                                     source |-> source, destination |-> destination])
            /\ UNCHANGED <<TRANSACTIONS, account, transaction>>
       ELSE LET done == transfer_legs(account, NextId, source, destination, amount, currency)
            IN /\ Len(transaction) + Len(done.created) <= MaxTransactions
               /\ TRANSACTIONS' = TRANSACTIONS \o <<NextId, NextId + 1>>
               /\ account' = done.account
               /\ transaction' = transaction \o done.created
               /\ last' = With(NoCall,
                      [op |-> "transfer", amount |-> amount, source |-> source, destination |-> destination,
                       out_txn |-> NextId, in_txn |-> NextId + 1,
                       comp_txn |-> IF Len(done.created) = 3 THEN NextId + 2 ELSE 0,
                       code |-> done.response.code, key |-> done.response.key,
                       message |-> done.response.message])
    /\ UNCHANGED <<USERS, ACCOUNT_NAME_TO_USERNAME, ACCOUNTS, flight>>

\* the bodies of update_account requests: account_type a member name of
\* AccountType or not one; balance a number text (<<number>>) or not one (<<>>)
UpdateData ==
    { [account_type |-> <<>>, currency |-> <<>>, balance |-> <<<<-1>>>>],
      [account_type |-> <<>>, currency |-> <<>>, balance |-> <<<<MaxAmount>>>>],
      [account_type |-> <<>>, currency |-> <<"EUR">>, balance |-> <<<<>>>>],
      [account_type |-> <<"MORTGAGE">>, currency |-> <<>>, balance |-> <<>>] }

----------------------------------------------------------------------------
(* SpecTransfer: the registries, account creation and update, and          *)
(* transfers.                                                              *)

NextTransfer ==
    \/ \E username \in Usernames : create_user(username)
    \/ \E username \in Usernames, n \in AccountNames,
          initial_deposit \in -1..MaxAmount, currency \in Currencies :
            create_account(username, n, initial_deposit, currency)
    \/ \E user_name \in Usernames, account_name \in AccountNames, data \in UpdateData :
            update_account(user_name, account_name, data)
    \/ \E source \in AccountNames, destination \in AccountNames,
          amount \in 0..MaxAmount, currency \in Currencies :
            transfer(source, destination, amount, currency)

SpecTransfer == Init /\ [][NextTransfer]_vars

----------------------------------------------------------------------------
(* SpecTeller: the registries, account creation, deposits and withdrawals. *)

NextTeller ==
    \/ \E username \in Usernames : create_user(username)
    \/ \E username \in Usernames, n \in AccountNames,
          initial_deposit \in -1..MaxAmount, currency \in Currencies :
            create_account(username, n, initial_deposit, currency)
    \/ \E user_name \in Usernames, account_name \in AccountNames,
          amount \in 0..MaxAmount, currency \in Currencies :
            deposit(user_name, account_name, amount, currency)
    \/ \E user_name \in Usernames, account_name \in AccountNames,
          amount \in 0..MaxAmount, currency \in Currencies :
            withdraw(user_name, account_name, amount, currency)

SpecTeller == Init /\ [][NextTeller]_vars

----------------------------------------------------------------------------
(* Properties of the transfer request, checked under SpecTransfer.         *)

RECURSIVE SumOfBalances(_, _)
SumOfBalances(accts, names) ==
    IF names = {} THEN 0
    ELSE LET n == CHOOSE m \in names : TRUE
         IN (IF accts[n] = NoAccount THEN 0 ELSE accts[n].balance)
            + SumOfBalances(accts, names \ {n})

\* the sum of the balances of all accounts
TotalFunds(accts) == SumOfBalances(accts, AccountNames)

\* this step is a transfer request that got as far as processing its legs
TransferProcessed == last'.op = "transfer" /\ Len(transaction') > Len(transaction)

\* the last request was a transfer that got as far as processing its legs
Transferred == last.op = "transfer" /\ last.out_txn # 0

\* the last request was a transfer that also processed a compensation
Compensated == Transferred /\ last.comp_txn # 0

CreditedWithoutDebit(d) ==
    /\ TransferProcessed
    /\ last'.destination = d
    /\ transaction'[last'.out_txn].status = "FAILED"
    /\ transaction'[last'.in_txn].status = "COMPLETED"

\* the compensating TRANSFER_OUT took back from d what the IN leg gave it
TakenBack(d) ==
    /\ last'.comp_txn # 0
    /\ transaction'[last'.comp_txn].type = "TRANSFER_OUT"
    /\ transaction'[last'.comp_txn].amount = transaction'[last'.in_txn].amount
    /\ Occurrences(account'[d].transaction_history, last'.comp_txn) = 1
    /\ account'[d].balance = account[d].balance

C9_TakeBackWhenNotOverdrawn ==
    [][\A d \in AccountNames :
          (CreditedWithoutDebit(d) /\ account[d].balance >= 0) => TakenBack(d)]_vars

\* what the caller gets from a failed transfer whose refund completed (the
\* request of C8_Witness)
RefundedResponse ==
    transfer_response(TRUE, "Transfer_OUT successful", FALSE, "Currency mismatch")

C10_RefundedResponseOccurs ==
    /\ Compensated
    /\ transaction[last.out_txn].status = "COMPLETED"
    /\ transaction[last.comp_txn].status = "COMPLETED"
    /\ Response(last.code, last.key, last.message) = RefundedResponse

----------------------------------------------------------------------------
(* SpecRequests: the registries, account creation and the three requests   *)
(* that create transactions, with amounts of either sign.                  *)

\* the amounts a request body can carry
RequestAmounts == -1..MaxAmount

\* a behaviour of SpecRequests serves requests while the transaction store
\* holds fewer than MaxRequests objects
Serving == Len(transaction) < MaxRequests

NextRequests ==
    \/ Serving /\ \E username \in Usernames : create_user(username)
    \/ Serving /\ \E username \in Usernames, n \in AccountNames,
                     initial_deposit \in 0..MaxAmount, currency \in Currencies :
            create_account(username, n, initial_deposit, currency)
    \/ Serving /\ \E user_name \in Usernames, account_name \in AccountNames,
                     amount \in RequestAmounts, currency \in Currencies :
            deposit(user_name, account_name, amount, currency)
    \/ Serving /\ \E user_name \in Usernames, account_name \in AccountNames,
                     amount \in RequestAmounts, currency \in Currencies :
            withdraw(user_name, account_name, amount, currency)
    \/ Serving /\ \E source \in AccountNames, destination \in AccountNames,
                     amount \in RequestAmounts, currency \in Currencies :
            transfer(source, destination, amount, currency)

SpecRequests == Init /\ [][NextRequests]_vars

\* this step is a deposit, withdrawal or transfer request
TransactionRequest == last'.op \in {"deposit", "withdraw", "transfer"}

----------------------------------------------------------------------------
(* SpecInterleaved: one transfer request served step by step, a step per   *)
(* process_transaction call, while account creation and update requests    *)
(* are served in between.  The handlers take no lock.                      *)

\* transfer up to TRANSACTIONS.extend: the lookups, the two Transaction objects
transfer_begin(source, destination, amount, currency) ==
    /\ flight.pc = "idle"
    /\ Len(transaction) + 3 <= MaxTransactions
    /\ IF \/ ACCOUNT_NAME_TO_USERNAME[source] = None
          \/ ACCOUNT_NAME_TO_USERNAME[destination] = None
       THEN /\ last' = With(NoCall, [op |-> "transfer", amount |-> amount, code |-> 500,
                                     raised |-> "KeyError",
                                     source |-> source, destination |-> destination])
            /\ UNCHANGED <<TRANSACTIONS, transaction, flight>>
       ELSE IF \/ account_to_update(ACCOUNTS[ACCOUNT_NAME_TO_USERNAME[source]], source) = -1
               \/ account_to_update(ACCOUNTS[ACCOUNT_NAME_TO_USERNAME[destination]],
                                    destination) = -1
       THEN /\ last' = With(NoCall, [op |-> "transfer", amount |-> amount, code |-> 404,
                                     key |-> "error",
                                     source |-> source, destination |-> destination])
            /\ UNCHANGED <<TRANSACTIONS, transaction, flight>>
       ELSE IF Transaction("TRANSFER_OUT", amount, currency, source, destination) = ValueError
       THEN /\ last' = With(NoCall, [op |-> "transfer", amount |-> amount, code |-> 400,
                                     key |-> "error", raised |-> "ValueError",
                                     source |-> source, destination |-> destination])
            /\ UNCHANGED <<TRANSACTIONS, transaction, flight>>
       ELSE /\ transaction' = transaction \o
                   <<Transaction("TRANSFER_OUT", amount, currency, source, destination),
                     Transaction("TRANSFER_IN", amount, currency, source, destination)>>
            /\ TRANSACTIONS' = TRANSACTIONS \o <<NextId, NextId + 1>>
            /\ flight' = With(NoFlight,
                   [pc |-> "out", source |-> source, destination |-> destination,
                    amount |-> amount, currency |-> currency,
                    out_txn |-> NextId, in_txn |-> NextId + 1,
                    before |-> Balances(account)])
            /\ UNCHANGED last
    /\ UNCHANGED <<USERS, ACCOUNT_NAME_TO_USERNAME, ACCOUNTS, account>>

\* processed_out, message_out, _ = source.process_transaction(out_transaction)
transfer_out_leg ==
    /\ flight.pc = "out"
    /\ LET done == process_transaction(account[flight.source], flight.out_txn,
                                       transaction[flight.out_txn])
       IN /\ account' = [account EXCEPT ![flight.source] = done.self]
          /\ transaction' = [transaction EXCEPT ![flight.out_txn] = done.transaction]
          /\ flight' = [flight EXCEPT !.pc = "in",
                                      !.processed_out = done.ret.accepted,
                                      !.message_out = done.ret.message]
    /\ UNCHANGED <<Registries, last>>

\* processed_in, message_in, _ = destination.process_transaction(in_transaction)
transfer_in_leg ==
    /\ flight.pc = "in"
    /\ LET done == process_transaction(account[flight.destination], flight.in_txn,
                                       transaction[flight.in_txn])
       IN /\ account' = [account EXCEPT ![flight.destination] = done.self]
          /\ transaction' = [transaction EXCEPT ![flight.in_txn] = done.transaction]
          /\ flight' = [flight EXCEPT !.pc = "settle",
                                      !.processed_in = done.ret.accepted,
                                      !.message_in = done.ret.message]
    /\ UNCHANGED <<Registries, last>>

\* save_data() after the two legs, then the compensating process_transaction
\* call when a leg was rejected
transfer_settle ==
    /\ flight.pc = "settle"
    /\ LET comp == compensation(flight.processed_out, flight.processed_in, flight.amount,
                                flight.currency, flight.source, flight.destination)
           target == compensated_account(flight.processed_in, flight.source,
                                         flight.destination)
       IN IF comp = <<>>
          THEN /\ flight' = [flight EXCEPT !.pc = "respond", !.saved = Balances(account)]
               /\ UNCHANGED <<account, transaction>>
          ELSE LET done == process_transaction(account[target], NextId, comp[1])
               IN /\ account' = [account EXCEPT ![target] = done.self]
                  /\ transaction' = Append(transaction, done.transaction)
                  /\ flight' = [flight EXCEPT !.pc = "respond", !.comp_txn = NextId,
                                              !.saved = Balances(account)]
    /\ UNCHANGED <<Registries, last>>

\* save_data() and the return of the response
transfer_respond ==
    /\ flight.pc = "respond"
    /\ LET response == transfer_response(flight.processed_out, flight.message_out,
                                         flight.processed_in, flight.message_in)
       IN last' = With(NoCall,
              [op |-> "transfer", amount |-> flight.amount,
               source |-> flight.source, destination |-> flight.destination,
               out_txn |-> flight.out_txn, in_txn |-> flight.in_txn,
               comp_txn |-> flight.comp_txn,
               code |-> response.code, key |-> response.key,
               message |-> response.message])
    /\ flight' = [flight EXCEPT !.pc = "done"]
    /\ UNCHANGED <<Registries, account, transaction>>

\* the bodies of the update_account requests served between the steps
InterleavedUpdates ==
    { [account_type |-> <<>>, currency |-> <<>>, balance |-> <<<<MaxAmount>>>>],
      [account_type |-> <<>>, currency |-> <<"EUR">>, balance |-> <<>>] }

NextInterleaved ==
    \/ \E username \in Usernames : create_user(username)
    \/ \E username \in Usernames, n \in AccountNames, currency \in Currencies :
            create_account(username, n, 0, currency)
    \/ \E user_name \in Usernames, account_name \in AccountNames,
          data \in InterleavedUpdates :
            update_account(user_name, account_name, data)
    \/ \E source \in AccountNames, destination \in AccountNames,
          amount \in Amounts, currency \in Currencies :
            transfer_begin(source, destination, amount, currency)
    \/ transfer_out_leg
    \/ transfer_in_leg
    \/ transfer_settle
    \/ transfer_respond

SpecInterleaved == Init /\ [][NextInterleaved]_vars

----------------------------------------------------------------------------
(* Claims checked under SpecInterleaved                                    *)

\* the transfer in flight has made its last process_transaction call
Settled == flight.pc \in {"respond", "done"}

\* the account whose leg of the transfer in flight was applied
AppliedAccount ==
    IF transaction[flight.out_txn].status = "COMPLETED"
    THEN flight.source ELSE flight.destination

\* the leg of the transfer in flight that was applied
AppliedLeg ==
    IF transaction[flight.out_txn].status = "COMPLETED"
    THEN flight.out_txn ELSE flight.in_txn

\* the ledger reflects a partial transfer: one leg COMPLETED, the other
\* FAILED, and the compensating transaction FAILED
PartialTransfer ==
    /\ Settled
    /\ flight.comp_txn # 0
    /\ transaction[flight.comp_txn].status = "FAILED"
    /\ \/ /\ transaction[flight.out_txn].status = "COMPLETED"
          /\ transaction[flight.in_txn].status = "FAILED"
       \/ /\ transaction[flight.out_txn].status = "FAILED"
          /\ transaction[flight.in_txn].status = "COMPLETED"

C15_OnlyProcessTransactionMutates ==
    [][\A n \in AccountNames :
          (/\ Exists(n)
           /\ \/ account'[n].balance # account[n].balance
              \/ account'[n].currency # account[n].currency
              \/ account'[n].status # account[n].status)
          => TransferProcessed]_vars

\* the transaction tid is in the TRANSACTIONS registry
Registered(tid) == \E i \in DOMAIN TRANSACTIONS : TRANSACTIONS[i] = tid

C20_LegsAreRegistered ==
    Transferred => Registered(last.out_txn) /\ Registered(last.in_txn)

----------------------------------------------------------------------------
(* The constructors with keyword arguments bound as Python binds them: a   *)
(* keyword the dataclass does not declare raises TypeError, and an         *)
(* attribute it does not declare raises AttributeError when read.          *)

TypeError == [exception |-> "TypeError"]
AttributeError == [exception |-> "AttributeError"]

\* the init fields the Transaction dataclass declares
DeclaredFields ==
    {"type", "amount", "currency", "source_account_id", "destination_account_id",
     "description", "transaction_id", "transaction_timestamp", "status"}

\* the value of a keyword argument, or the default of its field
Keyword(kwargs, name, default) == IF name \in DOMAIN kwargs THEN kwargs[name] ELSE default

\* Transaction(**kwargs): the generated __init__, then __post_init__
Transaction__init__(kwargs) ==
    IF ~(DOMAIN kwargs \subseteq DeclaredFields) THEN TypeError
    ELSE IF ~({"type", "amount", "currency"} \subseteq DOMAIN kwargs) THEN TypeError
    ELSE LET source_account_id == Keyword(kwargs, "source_account_id", None)
             destination_account_id == Keyword(kwargs, "destination_account_id", None)
         IN IF kwargs.amount <= 0 THEN ValueError
            ELSE IF kwargs.type \in {"TRANSFER_OUT", "WITHDRAWAL"} /\ source_account_id = None
            THEN ValueError
            ELSE IF kwargs.type \in {"TRANSFER_IN", "DEPOSIT"}
                    /\ destination_account_id = None
            THEN ValueError
            ELSE IF kwargs.type \in {"TRANSFER_IN", "TRANSFER_OUT"}
                    /\ (source_account_id = None /\ destination_account_id = None)
            THEN ValueError
            ELSE [type |-> kwargs.type,
                  amount |-> kwargs.amount,
                  currency |-> kwargs.currency,
                  source_account_id |-> source_account_id,
                  destination_account_id |-> destination_account_id,
                  status |-> "PENDING"]

\* process_transaction on an object of the declared fields: the append, the
\* currency test, and a handler whose first read past the blocked check is
\* transaction.source_account_name or transaction.destination_account_name
process_transaction_declared(self, tid, txn) ==
    LET appended == Append_history(self, tid)
    IN IF txn.currency # appended.currency THEN _process_currency(appended, txn)
       ELSE IF appended.status \in BLOCKED_ACCOUNT_STATUSES
       THEN _process_blocked_account_transaction(appended, txn)
       ELSE [self |-> appended, transaction |-> txn, raised |-> AttributeError]

\* BankAccount(...) with the initial deposit built as __post_init__ builds it,
\* by the keyword destination_account_name
BankAccount__init__(account_name, currency, account_owner, initial_deposit, status, tid) ==
    LET self == [account_name |-> account_name,
                 account_type |-> TypeOfName(account_name),
                 currency |-> currency,
                 account_owner |-> account_owner,
                 status |-> status,
                 balance |-> 0,
                 transaction_history |-> <<>>]
    IN IF account_owner = "" THEN ValueError
       ELSE IF initial_deposit < 0 THEN ValueError
       ELSE IF initial_deposit > 0
       THEN LET initial_deposit_txn ==
                    Transaction__init__([type |-> "DEPOSIT",
                                         amount |-> initial_deposit,
                                         currency |-> currency,
                                         destination_account_name |-> account_name,
                                         description |-> "Initial deposit"])
            IN IF initial_deposit_txn \in {TypeError, ValueError}
               THEN initial_deposit_txn
               ELSE LET done == process_transaction_declared(self, tid, initial_deposit_txn)
                    IN IF "raised" \in DOMAIN done THEN done.raised
                       ELSE [self |-> done.self, created |-> <<done.transaction>>]
       ELSE [self |-> self, created |-> <<>>]

----------------------------------------------------------------------------
(* SpecDeclared: accounts constructed, transactions built and processed,   *)
(* and deposits requested, with the keywords bound as declared.            *)

\* the two spellings under which callers pass the account references
Spellings == {"id", "name"}
\* the statuses accounts are constructed with here
DeclaredStatuses == {"ACTIVE", "FROZEN"}

\* the keyword arguments of a Transaction(...) call that spells the references
\* source_account_<spelling> and destination_account_<spelling>
Keywords(type, amount, currency, spelling, source, destination) ==
    IF spelling = "id"
    THEN [type |-> type, amount |-> amount, currency |-> currency,
          source_account_id |-> source, destination_account_id |-> destination]
    ELSE [type |-> type, amount |-> amount, currency |-> currency,
          source_account_name |-> source, destination_account_name |-> destination]

\* account = BankAccount(account_type, currency, account_owner, initial_deposit, status=status)
Construct_declared(n, currency, initial_deposit, status) ==
    /\ ~Exists(n)
    /\ LET made == BankAccount__init__(n, currency, "alice", initial_deposit, status, NextId)
       IN IF made \in {ValueError, TypeError, AttributeError}
          THEN /\ last' = With(NoCall, [op |-> "BankAccount", account |-> n,
                                        amount |-> initial_deposit,
                                        raised |-> made.exception])
               /\ UNCHANGED <<account, transaction>>
          ELSE /\ Len(transaction) + Len(made.created) <= MaxDeclared
               /\ account' = [account EXCEPT ![n] = made.self]
               /\ transaction' = transaction \o made.created
               /\ last' = With(NoCall, [op |-> "BankAccount", account |-> n,
                                        amount |-> initial_deposit])
    /\ UNCHANGED <<Registries, flight>>

\* account.process_transaction(Transaction(**keywords))
Call_declared(n, keywords) ==
    /\ Exists(n)
    /\ Len(transaction) < MaxDeclared
    /\ LET txn == Transaction__init__(keywords)
       IN IF txn \in {ValueError, TypeError}
          THEN /\ last' = With(NoCall, [op |-> "Transaction", account |-> n,
                                        amount |-> keywords.amount,
                                        raised |-> txn.exception])
               /\ UNCHANGED <<account, transaction>>
          ELSE LET done == process_transaction_declared(account[n], NextId, txn)
               IN /\ account' = [account EXCEPT ![n] = done.self]
                  /\ transaction' = Append(transaction, done.transaction)
                  /\ last' = With(NoCall,
                         [op |-> "process_transaction", account |-> n, txn |-> NextId,
                          amount |-> keywords.amount,
                          ret |-> IF "raised" \in DOMAIN done THEN ReturnsNone ELSE done.ret,
                          raised |-> IF "raised" \in DOMAIN done
                                     THEN done.raised.exception ELSE None])
    /\ UNCHANGED <<Registries, flight>>

\* POST /api/v1/accounts, the new account getting the name n
create_account_declared(username, n, initial_deposit, currency) ==
    /\ Len(transaction) < MaxDeclared
    /\ n \in FreshNames
    /\ IF username \notin USERS
       THEN /\ last' = With(NoCall, [op |-> "create_account", code |-> 400,
                                     amount |-> initial_deposit,
                                     key |-> "error", message |-> "Username does not exist"])
            /\ UNCHANGED <<ACCOUNT_NAME_TO_USERNAME, ACCOUNTS, account, transaction>>
       ELSE LET new_account == BankAccount__init__(n, currency, username, initial_deposit,
                                                   "ACTIVE", NextId)
            IN IF new_account \in {ValueError, TypeError, AttributeError}
               THEN /\ last' = With(NoCall,
                           [op |-> "create_account", amount |-> initial_deposit,
                            code |-> IF new_account = ValueError THEN 400 ELSE 500,
                            key |-> "error", raised |-> new_account.exception])
                    /\ UNCHANGED <<ACCOUNT_NAME_TO_USERNAME, ACCOUNTS, account, transaction>>
               ELSE /\ account' = [account EXCEPT ![n] = new_account.self]
                    /\ transaction' = transaction \o new_account.created
                    /\ ACCOUNTS' = [ACCOUNTS EXCEPT ![username] = Append(@, n)]
                    /\ ACCOUNT_NAME_TO_USERNAME' =
                           [ACCOUNT_NAME_TO_USERNAME EXCEPT ![n] = username]
                    /\ last' = With(NoCall, [op |-> "create_account", code |-> 201,
                                             amount |-> initial_deposit,
                                             key |-> "message", account |-> n])
    /\ UNCHANGED <<USERS, TRANSACTIONS, flight>>

\* POST /api/v1/accounts/deposit/<user_name>/<account_name>
deposit_declared(user_name, account_name, amount, currency) ==
    /\ Len(transaction) < MaxDeclared
    /\ IF account_to_update(ACCOUNTS[user_name], account_name) = -1
       THEN /\ last' = With(NoCall, [op |-> "deposit", amount |-> amount, currency |-> currency, code |-> 404,
                                     account |-> account_name,
                                     key |-> "error", message |-> "Account not found"])
            /\ UNCHANGED <<TRANSACTIONS, account, transaction>>
       ELSE LET new_transaction ==
                    Transaction__init__([type |-> "DEPOSIT", amount |-> amount,
                                         currency |-> currency,
                                         destination_account_name |-> account_name,
                                         description |-> "deposit"])
            IN IF new_transaction \in {ValueError, TypeError}
               THEN /\ last' = With(NoCall,
                           [op |-> "deposit", amount |-> amount, currency |-> currency, account |-> account_name,
                            code |-> IF new_transaction = ValueError THEN 400 ELSE 500,
                            key |-> "error", raised |-> new_transaction.exception])
                    /\ UNCHANGED <<TRANSACTIONS, account, transaction>>
               ELSE LET done == process_transaction_declared(account[account_name], NextId,
                                                             new_transaction)
                    IN /\ TRANSACTIONS' = Append(TRANSACTIONS, NextId)
                       /\ account' = [account EXCEPT ![account_name] = done.self]
                       /\ transaction' = Append(transaction, done.transaction)
                       /\ last' = IF "raised" \in DOMAIN done
                                  THEN With(NoCall,
                                         [op |-> "deposit", amount |-> amount, currency |-> currency,
                                          account |-> account_name, txn |-> NextId,
                                          code |-> 500, key |-> "error",
                                          raised |-> done.raised.exception])
                                  ELSE With(NoCall,
                                         [op |-> "deposit", amount |-> amount, currency |-> currency,
                                          account |-> account_name, txn |-> NextId,
                                          ret |-> done.ret,
                                          code |-> IF done.ret.accepted THEN 201 ELSE 400,
                                          key |-> IF done.ret.accepted
                                                  THEN "message" ELSE "error",
                                          message |-> done.ret.message])
    /\ UNCHANGED <<USERS, ACCOUNT_NAME_TO_USERNAME, ACCOUNTS, flight>>

NextDeclared ==
    \/ \E n \in UnitNames, currency \in Currencies,
          initial_deposit \in -1..MaxAmount, status \in DeclaredStatuses :
            Construct_declared(n, currency, initial_deposit, status)
    \/ \E n \in UnitNames, type \in TransactionTypes, amount \in Amounts,
          currency \in Currencies, spelling \in Spellings :
            \E r \in References(type, n) :
                Call_declared(n, Keywords(type, amount, currency, spelling, r[1], r[2]))
    \/ \E username \in Usernames : create_user(username)
    \/ \E username \in Usernames, n \in AccountNames,
          initial_deposit \in -1..MaxAmount, currency \in Currencies :
            create_account_declared(username, n, initial_deposit, currency)
    \/ \E user_name \in Usernames, account_name \in AccountNames,
          amount \in 0..MaxAmount, currency \in Currencies :
            deposit_declared(user_name, account_name, amount, currency)

SpecDeclared == Init /\ [][NextDeclared]_vars

----------------------------------------------------------------------------
(* Claims checked under SpecDeclared                                       *)

\* this step constructs the account n with the initial deposit D
Constructs(n, D) ==
    /\ last'.op = "BankAccount"
    /\ last'.account = n
    /\ last'.amount = D

\* C21: constructing an account with an initial deposit D > 0 yields an
\* account of balance D whose history holds exactly one transaction, a
\* COMPLETED DEPOSIT of amount D; an initial deposit of 0 yields balance 0
\* and an empty history; a negative initial deposit makes construction fail.
C21_InitialDeposit ==
    [][\A n \in AccountNames, D \in -1..MaxAmount :
          Constructs(n, D)
          => IF D < 0
             THEN last'.raised # None /\ account'[n] = NoAccount
             ELSE /\ last'.raised = None
                  /\ account'[n] # NoAccount
                  /\ account'[n].balance = D
                  /\ IF D = 0
                     THEN account'[n].transaction_history = <<>>
                     ELSE /\ Len(account'[n].transaction_history) = 1
                          /\ LET t == transaction'[account'[n].transaction_history[1]]
                             IN /\ t.type = "DEPOSIT"
                                /\ t.status = "COMPLETED"
                                /\ t.amount = D]_vars

\* the same construction with each account reference bound to the slot the
\* handlers read: a constructed ACTIVE account has either balance 0 and an
\* empty history, or a history of one COMPLETED DEPOSIT of its balance
C21_WithBoundReferences ==
    [][\A n \in AccountNames :
          (last'.op = "BankAccount" /\ last'.account = n /\ account'[n].status = "ACTIVE")
          => \/ account'[n].balance = 0 /\ account'[n].transaction_history = <<>>
             \/ /\ account'[n].balance > 0
                /\ Len(account'[n].transaction_history) = 1
                /\ LET t == transaction'[account'[n].transaction_history[1]]
                   IN /\ t.type = "DEPOSIT"
                      /\ t.status = "COMPLETED"
                      /\ t.amount = account'[n].balance]_vars


\* this step serves a deposit request of a positive amount in the account's
\* currency to the registered ACTIVE account n
DepositRequest(n) ==
    /\ last'.op = "deposit"
    /\ last'.account = n
    /\ ACCOUNT_NAME_TO_USERNAME[n] # None
    /\ account[n].status = "ACTIVE"
    /\ last'.amount > 0
    /\ last'.currency = account[n].currency

\* C22: a deposit request to an existing ACTIVE account with a positive
\* amount and the account's currency returns 201, increases the balance by
\* exactly the amount, and records one COMPLETED DEPOSIT transaction in both
\* the account's history and TRANSACTIONS.
C22_DepositRequest ==
    [][\A n \in AccountNames :
          DepositRequest(n)
          => /\ last'.code = 201
             /\ account'[n].balance = account[n].balance + last'.amount
             /\ Len(transaction') = Len(transaction) + 1
             /\ transaction'[Len(transaction')].type = "DEPOSIT"
             /\ transaction'[Len(transaction')].status = "COMPLETED"
             /\ account'[n].transaction_history =
                   Append(account[n].transaction_history, Len(transaction'))
             /\ TRANSACTIONS' = Append(TRANSACTIONS, Len(transaction'))]_vars


\* the same request with each account reference bound to the slot the
\* handlers read: a deposit in the account's currency processed on an ACTIVE
\* account returns 201, credits exactly the amount, and the COMPLETED DEPOSIT
\* is the new last entry of the history and of TRANSACTIONS
C22_WithBoundReferences ==
    [][\A n \in AccountNames :
          (/\ last'.op = "deposit" /\ last'.account = n /\ last'.txn # 0
           /\ account[n].status = "ACTIVE"
           /\ transaction'[last'.txn].currency = account[n].currency)
          => /\ last'.code = 201
             /\ account'[n].balance = account[n].balance + last'.amount
             /\ transaction'[last'.txn].type = "DEPOSIT"
             /\ transaction'[last'.txn].status = "COMPLETED"
             /\ account'[n].transaction_history =
                   Append(account[n].transaction_history, last'.txn)
             /\ TRANSACTIONS' = Append(TRANSACTIONS, last'.txn)]_vars


----------------------------------------------------------------------------
(* Further claims checked under SpecTransfer                               *)

\* the account name n is unknown to the system: no user is recorded for it,
\* or the user recorded for it holds no account of that name
Unknown(n) ==
    \/ ACCOUNT_NAME_TO_USERNAME[n] = None
    \/ account_to_update(ACCOUNTS[ACCOUNT_NAME_TO_USERNAME[n]], n) = -1

\* C23: a transfer request that names a source or a destination account
\* unknown to the system is answered 404 with an error, and changes no
\* account and no registry.
C23_UnknownAccountNotFound ==
    [][\A s, d \in AccountNames :
          (/\ last'.op = "transfer"
           /\ last'.source = s /\ last'.destination = d
           /\ (Unknown(s) \/ Unknown(d)))
          => /\ last'.code = 404
             /\ last'.key = "error"
             /\ UNCHANGED <<Registries, account, transaction>>]_vars

\* whatever it answers, such a request changes no account and no registry
C23_UnknownAccountChangesNothing ==
    [][\A s, d \in AccountNames :
          (/\ last'.op = "transfer"
           /\ last'.source = s /\ last'.destination = d
           /\ (Unknown(s) \/ Unknown(d)))
          => UNCHANGED <<Registries, account, transaction>>]_vars


----------------------------------------------------------------------------
(* Further claims checked under SpecRequests                               *)

\* the reasons for which an account rejects a deposit or a withdrawal
BusinessReasons ==
    {"Currency mismatch", "Account is frozen", "Account is closed", "Insufficient funds"}

\* this step serves a deposit or withdrawal request that reaches the account n
\* with a transaction in another currency, or finds n blocked, or withdraws
\* more than the balance of n
BusinessRejection(n) ==
    /\ last'.op \in {"deposit", "withdraw"}
    /\ last'.account = n
    /\ last'.txn # 0
    /\ \/ account[n].status \in BLOCKED_ACCOUNT_STATUSES
       \/ transaction'[last'.txn].currency # account[n].currency
       \/ last'.op = "withdraw" /\ last'.amount > account[n].balance

----------------------------------------------------------------------------
(* Further claims checked under Spec                                       *)

\* the transaction this step processes on n names another account where its
\* type refers to the processing account
Mismatched(n) ==
    LET t == transaction'[last'.txn]
    IN IF t.type \in {"DEPOSIT", "INTEREST", "TRANSFER_IN"}
       THEN t.destination_account_name # n
       ELSE t.source_account_name # n

----------------------------------------------------------------------------
(* SpecLedger: the registries as users and accounts are created and        *)
(* deleted and deposits and transfers are made.                            *)

\* the sequence without its element at idx (list.pop(idx))
Pop(list, idx) == [i \in 1..(Len(list) - 1) |-> IF i < idx THEN list[i] ELSE list[i + 1]]

\* the sequence without the elements in gone
RECURSIVE Without(_, _)
Without(list, gone) ==
    IF list = <<>> THEN <<>>
    ELSE IF list[1] \in gone THEN Without(Tail(list), gone)
    ELSE <<list[1]>> \o Without(Tail(list), gone)

\* the elements of a sequence
Elements(list) == {list[i] : i \in DOMAIN list}

\* a delete_account that also drops the account's transactions from TRANSACTIONS
delete_account_purging(user_name, account_name) ==
    /\ Len(transaction) < MaxTransactions
    /\ IF account_to_update(ACCOUNTS[user_name], account_name) = -1
       THEN /\ last' = With(NoCall, [op |-> "delete_account", code |-> 404,
                                     key |-> "error", message |-> "Account not found"])
            /\ UNCHANGED <<ACCOUNT_NAME_TO_USERNAME, ACCOUNTS, TRANSACTIONS>>
       ELSE /\ ACCOUNTS' = [ACCOUNTS EXCEPT ![user_name] =
                               Pop(@, account_to_update(@, account_name))]
            /\ ACCOUNT_NAME_TO_USERNAME' = [ACCOUNT_NAME_TO_USERNAME EXCEPT
                                               ![account_name] = None]
            /\ TRANSACTIONS' = Without(TRANSACTIONS,
                                       Elements(account[account_name].transaction_history))
            /\ last' = With(NoCall, [op |-> "delete_account", code |-> 200,
                                     key |-> "message", account |-> account_name])
    /\ UNCHANGED <<USERS, account, transaction, flight>>

\* DELETE /api/v1/accounts/<user_name>/<account_name>
delete_account(user_name, account_name) ==
    /\ Len(transaction) < MaxTransactions
    /\ IF account_to_update(ACCOUNTS[user_name], account_name) = -1
       THEN /\ last' = With(NoCall, [op |-> "delete_account", code |-> 404,
                                     key |-> "error", message |-> "Account not found"])
            /\ UNCHANGED <<ACCOUNT_NAME_TO_USERNAME, ACCOUNTS>>
       ELSE /\ ACCOUNTS' = [ACCOUNTS EXCEPT ![user_name] =
                               Pop(@, account_to_update(@, account_name))]
            /\ ACCOUNT_NAME_TO_USERNAME' = [ACCOUNT_NAME_TO_USERNAME EXCEPT
                                               ![account_name] = None]
            /\ last' = With(NoCall, [op |-> "delete_account", code |-> 200,
                                     key |-> "message", account |-> account_name])
    /\ UNCHANGED <<USERS, TRANSACTIONS, account, transaction, flight>>

\* a delete_user that leaves the names of the user's accounts registered
delete_user_keeping_names(user_name) ==
    /\ Len(transaction) < MaxTransactions
    /\ IF user_name \notin USERS
       THEN /\ last' = With(NoCall, [op |-> "delete_user", code |-> 404,
                                     key |-> "error", message |-> "User not found"])
            /\ UNCHANGED <<USERS, ACCOUNTS>>
       ELSE /\ USERS' = USERS \ {user_name}
            /\ ACCOUNTS' = [ACCOUNTS EXCEPT ![user_name] = <<>>]
            /\ last' = With(NoCall, [op |-> "delete_user", code |-> 200, key |-> "message"])
    /\ UNCHANGED <<ACCOUNT_NAME_TO_USERNAME, TRANSACTIONS, account, transaction, flight>>

\* a delete_user that leaves the user's accounts where they are
delete_user_keeping_accounts(user_name) ==
    /\ Len(transaction) < MaxTransactions
    /\ IF user_name \notin USERS
       THEN /\ last' = With(NoCall, [op |-> "delete_user", code |-> 404,
                                     key |-> "error", message |-> "User not found"])
            /\ UNCHANGED USERS
       ELSE /\ USERS' = USERS \ {user_name}
            /\ last' = With(NoCall, [op |-> "delete_user", code |-> 200, key |-> "message"])
    /\ UNCHANGED <<ACCOUNT_NAME_TO_USERNAME, ACCOUNTS, TRANSACTIONS, account, transaction,
                   flight>>

\* DELETE /api/v1/users/<user_name>
delete_user(user_name) ==
    /\ Len(transaction) < MaxTransactions
    /\ IF user_name \notin USERS
       THEN /\ last' = With(NoCall, [op |-> "delete_user", code |-> 404,
                                     key |-> "error", message |-> "User not found"])
            /\ UNCHANGED <<USERS, ACCOUNT_NAME_TO_USERNAME, ACCOUNTS>>
       ELSE /\ USERS' = USERS \ {user_name}
            /\ ACCOUNTS' = [ACCOUNTS EXCEPT ![user_name] = <<>>]
            /\ ACCOUNT_NAME_TO_USERNAME' =
                   [n \in AccountNames |->
                       IF n \in Elements(ACCOUNTS[user_name])
                       THEN None ELSE ACCOUNT_NAME_TO_USERNAME[n]]
            /\ last' = With(NoCall, [op |-> "delete_user", code |-> 200, key |-> "message"])
    /\ UNCHANGED <<TRANSACTIONS, account, transaction, flight>>

NextLedger ==
    \/ Serving /\ \E username \in Usernames : create_user(username)
    \/ Serving /\ \E username \in Usernames, n \in AccountNames,
                     initial_deposit \in 0..MaxAmount, currency \in Currencies :
            create_account(username, n, initial_deposit, currency)
    \/ Serving /\ \E user_name \in Usernames, account_name \in AccountNames,
                     amount \in Amounts, currency \in Currencies :
            deposit(user_name, account_name, amount, currency)
    \/ Serving /\ \E source \in AccountNames, destination \in AccountNames,
                     amount \in Amounts, currency \in Currencies :
            transfer(source, destination, amount, currency)
    \/ Serving /\ \E user_name \in Usernames, account_name \in AccountNames :
            delete_account(user_name, account_name)
    \/ Serving /\ \E user_name \in Usernames : delete_user(user_name)

SpecLedger == Init /\ [][NextLedger]_vars


----------------------------------------------------------------------------
(* Claims checked under SpecLedger                                         *)

\* the sequence a is an initial segment of the sequence b
IsPrefix(a, b) == Len(a) <= Len(b) /\ \A i \in DOMAIN a : a[i] = b[i]

C26_HistoryKeptByRequests ==
    [][\A n \in AccountNames :
          Exists(n) => IsPrefix(account[n].transaction_history,
                                account'[n].transaction_history)]_vars

----------------------------------------------------------------------------
(* Further claims checked under Spec                                       *)

----------------------------------------------------------------------------
(* Further claims checked under SpecTransfer                               *)

\* exactly one leg of this step's transfer completed
OneLegCompleted ==
    /\ TransferProcessed
    /\ (transaction'[last'.out_txn].status = "COMPLETED")
          # (transaction'[last'.in_txn].status = "COMPLETED")

\* the compensating transaction of this step's transfer completed
CompensationCompleted ==
    /\ last'.comp_txn # 0
    /\ transaction'[last'.comp_txn].status = "COMPLETED"

C30_CompensationCompletesWhenNotOverdrawn ==
    [][(OneLegCompleted /\ \A n \in AccountNames : Exists(n) => account[n].balance >= 0)
          => CompensationCompleted]_vars


----------------------------------------------------------------------------
(* SpecSnapshots: requests served one at a time, the transfer request a    *)
(* step per process_transaction call so that the snapshot save_data writes *)
(* between the two legs and the compensation is a state of the model.      *)

\* no transfer request is being served
Quiet == flight.pc \in {"idle", "done"}

NextSnapshots ==
    \/ Quiet /\ \E username \in Usernames : create_user(username)
    \/ Quiet /\ \E username \in Usernames, n \in AccountNames, currency \in Currencies :
            create_account(username, n, 0, currency)
    \/ Quiet /\ \E user_name \in Usernames, account_name \in AccountNames,
                   data \in InterleavedUpdates :
            update_account(user_name, account_name, data)
    \/ \E source \in AccountNames, destination \in AccountNames,
          amount \in Amounts, currency \in Currencies :
            transfer_begin(source, destination, amount, currency)
    \/ transfer_out_leg
    \/ transfer_in_leg
    \/ transfer_settle
    \/ transfer_respond

SpecSnapshots == Init /\ [][NextSnapshots]_vars

----------------------------------------------------------------------------
(* Claims checked under SpecSnapshots                                      *)

C31_SnapshotOfCompletedTransfer ==
    (flight.pc = "respond" /\ flight.processed_out /\ flight.processed_in)
    => flight.saved = Balances(account)


----------------------------------------------------------------------------
(* SpecRace: one BankAccount object on which two threads process           *)
(* WITHDRAWAL and TRANSFER_OUT transactions, a call being two steps: up to *)
(* the test of the funds, and from the subtraction on.  The handlers take  *)
(* no lock.                                                                *)

\* thread t calls process_transaction on n and runs it up to the test
\* `if self.balance >= transaction.amount`; a call rejected before or by the
\* test returns in this step
debit_check(t, n, type, amount, currency) ==
    /\ flight.debits[t].pc = "idle"
    /\ Exists(n)
    /\ Len(transaction) < MaxTransactions
    /\ LET other == CHOOSE m \in AccountNames : m # n
           txn == Transaction(type, amount, currency, n,
                              IF type = "TRANSFER_OUT" THEN other ELSE None)
       IN /\ txn # ValueError
          /\ LET done == process_transaction(account[n], NextId, txn)
             IN IF done.ret.accepted
                THEN /\ account' = [account EXCEPT ![n] = Append_history(@, NextId)]
                     /\ transaction' = Append(transaction, txn)
                     /\ flight' = [flight EXCEPT !.debits[t] =
                                      [pc |-> "checked", account |-> n, txn |-> NextId]]
                     /\ UNCHANGED last
                ELSE /\ account' = [account EXCEPT ![n] = done.self]
                     /\ transaction' = Append(transaction, done.transaction)
                     /\ flight' = [flight EXCEPT !.debits[t] =
                                      [pc |-> "done", account |-> n, txn |-> NextId]]
                     /\ last' = With(NoCall, [op |-> "process_transaction", account |-> n,
                                              txn |-> NextId, ret |-> done.ret])
    /\ UNCHANGED Registries

\* thread t goes on from the test it passed: self.balance -= amount,
\* transaction.status = COMPLETED, return
debit_subtract(t) ==
    /\ flight.debits[t].pc = "checked"
    /\ LET n == flight.debits[t].account
           tid == flight.debits[t].txn
           done == Completed(Debit(account[n], transaction[tid].amount), transaction[tid],
                             IF transaction[tid].type = "WITHDRAWAL"
                             THEN "Withdrawal successful" ELSE "Transfer_OUT successful")
       IN /\ account' = [account EXCEPT ![n] = done.self]
          /\ transaction' = [transaction EXCEPT ![tid] = done.transaction]
          /\ flight' = [flight EXCEPT !.debits[t].pc = "done"]
          /\ last' = With(NoCall, [op |-> "process_transaction", account |-> n,
                                   txn |-> tid, ret |-> done.ret])
    /\ UNCHANGED Registries

NextRace ==
    \/ \E n \in UnitNames, currency \in UnitCurrencies,
          initial_deposit \in -1..MaxAmount, status \in AccountStatuses :
            Construct(n, currency, initial_deposit, status)
    \/ \E t \in Threads, n \in UnitNames, type \in {"WITHDRAWAL", "TRANSFER_OUT"},
          amount \in Amounts, currency \in Currencies :
            debit_check(t, n, type, amount, currency)
    \/ \E t \in Threads : debit_subtract(t)

SpecRace == Init /\ [][NextRace]_vars

----------------------------------------------------------------------------
(* Claims checked under SpecRace                                           *)

----------------------------------------------------------------------------
(* Further claims checked under SpecLedger                                 *)

C34_AccountsBelongToUsers ==
    \A u \in Usernames : ACCOUNTS[u] # <<>> => u \in USERS

\* a user who had an account has been deleted, and ACCOUNTS holds no account
\* of that user any more
C34_Witness ==
    /\ last.op = "delete_user"
    /\ last.code = 200
    /\ \E n \in AccountNames : Exists(n)
    /\ \A u \in Usernames : u \notin USERS /\ ACCOUNTS[u] = <<>>


----------------------------------------------------------------------------
(* Error answers of update_account                                         *)

\* the three fields update_account assigns
Updatable(self) ==
    [account_type |-> self.account_type, currency |-> self.currency,
     balance |-> self.balance]

\* C35: an update_account request answered with 400 or 500 leaves the type,
\* the currency and the balance of every account as they were before it, also
\* when a valid field comes before an invalid one
C35_FailedUpdateChangesNothing ==
    [][(last'.op = "update_account" /\ last'.code \in {400, 500})
       => \A n \in AccountNames :
            Exists(n) => Updatable(account'[n]) = Updatable(account[n])]_vars

\* the part of C35 the code keeps: a request refused at its first field, or
\* with no field, changes nothing
C35_RefusedAtFirstField ==
    [][(/\ last'.op = "update_account"
        /\ last'.code \in {400, 500}
        /\ last'.raised # "ValueError")
       => UNCHANGED account]_vars


----------------------------------------------------------------------------
(* A username that is taken                                                *)

\* C36: a create_user request with a username that already exists is
\* answered with 400 and leaves the user, the accounts of the user and all
\* four registries as they were (a create_user step that adds no username is
\* one whose username was taken)
C36_DuplicateUserRefused ==
    [][last'.op = "create_user"
       => /\ USERS' = USERS => last'.code = 400
          /\ last'.code = 400 => UNCHANGED <<Registries, account>>]_vars

\* a refused create_user for a user who holds an account
C36_Witness ==
    /\ last.op = "create_user"
    /\ last.code = 400
    /\ \E username \in USERS : ACCOUNTS[username] # <<>>

====
